---- MODULE Spec2Model ----
(***************************************************************************)
(* UVM (variant 30): the assembler of src/assembler.py and the interpreter *)
(* of src/interpreter.py.                                                  *)
(*                                                                         *)
(* Python integers are unbounded and the VM handles values up to 2^32-1    *)
(* (and addresses beyond that), which TLC's 32-bit integers cannot hold.   *)
(* A number that may exceed 2^31-1 is therefore a record [hi, lo] that     *)
(* stands for hi * 2^16 + lo, with lo in 0..2^16-1 and hi any integer      *)
(* (hi < 0 for a negative number).  Numbers that the code keeps small      *)
(* (operands, the field B, pc, prog_len, steps) are plain integers.        *)
(***************************************************************************)
EXTENDS Integers, Sequences, FiniteSets, TLC

VARIABLES
    mem,        \* VM.mem: dict addr -> value (a function on the addresses written)
    stack,      \* VM.stack: list, top = end
    pc,         \* VM.pc
    prog_len,   \* VM.prog_len
    running,    \* TRUE while control is inside VM.run's loop
    steps,      \* run's local `steps` (kept after run ends until the next call)
    max_steps,  \* run's parameter `max_steps`
    entry_pc,   \* history: self.pc at the moment run was entered
    ret,        \* outcome of the last call on the VM: [call, out]
    loads,      \* number of load_program calls made so far (bounds the model)
    prog_blob,  \* the bytes of the file given to the last load_program call
    ins,        \* argument of the last assemble_instruction call
    asm,        \* its result (a record with ok = TRUE, or the error raised)
    data,       \* argument of the last assemble_program call (the parsed YAML list)
    out_file,   \* the assembler's output file: <<>> when absent, <<bytes>> when written
    asm_ret     \* outcome of the last assemble_program call

vm_vars  == <<mem, stack, pc, prog_len, running, steps, max_steps, entry_pc, ret, loads,
              prog_blob>>
asm_vars == <<ins, asm, data, out_file, asm_ret>>
vars     == <<mem, stack, pc, prog_len, running, steps, max_steps, entry_pc, ret, loads,
              prog_blob, ins, asm, data, out_file, asm_ret>>

----------------------------------------------------------------------------
(* Numbers *)

TwoTo16 == 2^16

\* None / a value, as Python's optional B
None == <<>>
Some(b) == <<b>>

\* the number an integer that TLC can hold stands for
FromInt(i) == [hi |-> i \div TwoTo16, lo |-> i % TwoTo16]

IsNeg(n) == n.hi < 0

\* n & 0xFFFFFFFF
Mask32(n) == [hi |-> n.hi % TwoTo16, lo |-> n.lo]

\* n + b for a small integer b >= 0 (Python's unbounded addition)
AddInt(n, b) ==
    LET s == n.lo + b
    IN  [hi |-> n.hi + (s \div TwoTo16), lo |-> s % TwoTo16]

Less(a, b) == a.hi < b.hi \/ (a.hi = b.hi /\ a.lo < b.lo)

\* Python's max(x, y): y only when it is greater than x
max_min(x, y) == IF Less(x, y) THEN x ELSE y
max(x, y) == IF Less(x, y) THEN y ELSE x

\* word & 0x1F
Low5(n) == n.lo % 32

\* (word >> 5) & ((1 << bits) - 1), which is below 2^27 for bits <= 27
Field(n, bits) ==
    IF bits + 5 <= 16
    THEN (n.lo % (2^(bits + 5))) \div 32
    ELSE (((n.hi % (2^(bits + 5 - 16))) * TwoTo16) + n.lo) \div 32

----------------------------------------------------------------------------
(* src/assembler.py *)

OPCODES ==
    [ CONST |-> [A |-> 8,  B_bits |-> 21, arg |-> Some("value")],
      LOAD  |-> [A |-> 21, B_bits |-> 24, arg |-> Some("addr")],
      STORE |-> [A |-> 28, B_bits |-> 0,  arg |-> None],
      MAX   |-> [A |-> 25, B_bits |-> 13, arg |-> Some("offset")] ]

\* str.upper() on the mnemonics the model feeds the assembler
Upper(s) ==
    CASE s = "const" -> "CONST"
      [] s = "Load"  -> "LOAD"
      [] s = "store" -> "STORE"
      [] s = "mAx"   -> "MAX"
      [] s = "nop"   -> "NOP"
      [] OTHER       -> s

\* maxB = (1 << B_bits) - 1 ; the range test 0 <= B <= maxB
InRange_incl(B, B_bits) == 0 <= B /\ B <= 2^B_bits
InRange(B, B_bits) == 0 <= B /\ B <= (2^B_bits) - 1

\* value = A | (B << 5): B << 5 has its low five bits clear and A < 32, so the
\* bitwise or is a sum; value &= 0xFFFFFFFF changes nothing below 2^32
Pack_shift4(A, B) == A + B * 16
Pack(A, B) == A + B * 32

assemble_instruction(i) ==
    IF "op" \notin DOMAIN i
    THEN [ok |-> FALSE, err |-> "MissingOp"]
    ELSE
      LET op == Upper(i["op"]) IN
      IF op \notin DOMAIN OPCODES
      THEN [ok |-> FALSE, err |-> "UnknownMnemonic"]
      ELSE
        LET meta   == OPCODES[op]
            A      == meta.A % 32
            B_bits == meta.B_bits
        IN
        IF B_bits = 0
        THEN [ok |-> TRUE, op |-> op, A |-> A, B |-> None, word |-> A]
        ELSE
          LET arg_name == meta.arg[1] IN
          IF arg_name \notin DOMAIN i
          THEN [ok |-> FALSE, err |-> "MissingOperand"]
          ELSE
            LET B == i[arg_name] IN
            IF ~InRange(B, B_bits)
            THEN [ok |-> FALSE, err |-> "OperandOutOfRange"]
            ELSE [ok |-> TRUE, op |-> op, A |-> A, B |-> Some(B),
                  word |-> Pack(A, B)]

\* struct.pack("<I", word): four bytes, least significant first
pack(word) ==
    << word % 256, (word \div 256) % 256, (word \div 65536) % 256,
       (word \div 16777216) % 256 >>

RECURSIVE FirstError(_, _)
\* the index of the first instruction of d, from k on, that fails to assemble; 0 if none
FirstError(d, k) ==
    IF k > Len(d) THEN 0
    ELSE IF ~assemble_instruction(d[k]).ok THEN k
    ELSE FirstError(d, k + 1)

RECURSIVE Serialize_rev(_, _)
\* a bug: the words are written last instruction first
Serialize_rev(ir, k) ==
    IF k > Len(ir) THEN <<>>
    ELSE Serialize_rev(ir, k + 1) \o pack(ir[k].word)

RECURSIVE Serialize(_, _)
\* the bytes f.write puts out for items k.. of the IR list
Serialize(ir, k) ==
    IF k > Len(ir) THEN <<>>
    ELSE pack(ir[k].word) \o Serialize(ir, k + 1)

\* ir = [assemble_instruction(ins) for ins in data]
IR(d) == [k \in 1..Len(d) |-> assemble_instruction(d[k])]

----------------------------------------------------------------------------
(* src/interpreter.py *)

LAYOUT_max12 ==
    (8 :> <<"CONST", 21>>) @@ (21 :> <<"LOAD", 24>>) @@
    (28 :> <<"STORE", 0>>) @@ (25 :> <<"MAX", 12>>)
LAYOUT_store31 ==
    (8 :> <<"CONST", 21>>) @@ (21 :> <<"LOAD", 24>>) @@
    (31 :> <<"STORE", 0>>) @@ (25 :> <<"MAX", 13>>)
LAYOUT ==
    (8 :> <<"CONST", 21>>) @@ (21 :> <<"LOAD", 24>>) @@
    (28 :> <<"STORE", 0>>) @@ (25 :> <<"MAX", 13>>)

decode_word(word) ==
    LET A == Low5(word) IN
    IF A \notin DOMAIN LAYOUT
    THEN [ok |-> FALSE, err |-> "UnknownOpcode"]
    ELSE
      LET name   == LAYOUT[A][1]
          B_bits == LAYOUT[A][2]
      IN  [ok |-> TRUE, A |-> A, name |-> name,
           B |-> IF B_bits # 0 THEN Some(Field(word, B_bits)) ELSE None]

\* self.mem.get(addr, 0), after mem_get's test addr < 0 has passed
mem_get(m, addr) == IF addr \in DOMAIN m THEN m[addr] ELSE FromInt(0)

\* self.mem[addr] = value & 0xFFFFFFFF, after mem_set's test addr < 0 has passed
mem_set(m, addr, value) == (addr :> Mask32(value)) @@ m

\* int.from_bytes(blob[i : i + 4], "little") for the word that starts at byte i (1-based)
\* a bug: the four bytes read most significant first
from_bytes_big(blob, i) ==
    [hi |-> blob[i] * 256 + blob[i + 1], lo |-> blob[i + 2] * 256 + blob[i + 3]]
from_bytes(blob, i) ==
    [hi |-> blob[i + 3] * 256 + blob[i + 2], lo |-> blob[i + 1] * 256 + blob[i]]

\* words = [int.from_bytes(blob[i : i + 4], "little") for i in range(0, len(blob), 4)]
Words(blob) == [k \in 1..(Len(blob) \div 4) |-> from_bytes(blob, 4 * (k - 1) + 1)]

RECURSIVE StoreWords(_, _, _)
\* for i, w in enumerate(words): self.mem_set(i, w)    (from the k-th word on)
StoreWords(m, words, k) ==
    IF k > Len(words) THEN m
    ELSE StoreWords(mem_set(m, FromInt(k - 1), words[k]), words, k + 1)

Pop2(s) == SubSeq(s, 1, Len(s) - 2)

\* the STORE branch of step: what it leaves of memory and stack, and how it ends
exec_STORE_swapped(m, s) ==
    IF Len(s) < 2
    THEN [mem |-> m, stack |-> s, out |-> "StackUnderflow"]
    ELSE
      LET val  == s[Len(s)]
          addr == s[Len(s) - 1]
      IN  [mem |-> mem_set(m, addr, val), stack |-> Pop2(s), out |-> "True"]
exec_STORE_popfirst(m, s) ==
    IF Len(s) < 1
    THEN [mem |-> m, stack |-> s, out |-> "StackUnderflow"]
    ELSE IF Len(s) < 2
    THEN [mem |-> m, stack |-> SubSeq(s, 1, Len(s) - 1), out |-> "StackUnderflow"]
    ELSE
      LET addr == s[Len(s)]
          val  == s[Len(s) - 1]
      IN  [mem |-> mem_set(m, addr, val), stack |-> Pop2(s), out |-> "True"]
exec_STORE(m, s) ==
    IF Len(s) < 2
    THEN [mem |-> m, stack |-> s, out |-> "StackUnderflow"]
    ELSE
      LET addr == s[Len(s)]
          val  == s[Len(s) - 1]
      IN  IF IsNeg(addr)
          THEN [mem |-> m, stack |-> Pop2(s), out |-> "InvalidAddress"]
          ELSE [mem |-> mem_set(m, addr, val), stack |-> Pop2(s), out |-> "True"]

\* the MAX branch of step
exec_MAX_pushaddr(m, s, B) ==
    IF Len(s) < 2
    THEN [mem |-> m, stack |-> s, out |-> "StackUnderflow"]
    ELSE
      LET base_addr == s[Len(s)]
          x         == s[Len(s) - 1]
      IN  [mem |-> m, stack |-> Append(Pop2(s), max(x, AddInt(base_addr, B))),
           out |-> "True"]
exec_MAX(m, s, B) ==
    IF Len(s) < 2
    THEN [mem |-> m, stack |-> s, out |-> "StackUnderflow"]
    ELSE
      LET base_addr == s[Len(s)]
          x         == s[Len(s) - 1]
          a         == AddInt(base_addr, B)
      IN  IF IsNeg(a)
          THEN [mem |-> m, stack |-> Pop2(s), out |-> "InvalidAddress"]
          ELSE [mem |-> m, stack |-> Append(Pop2(s), max(x, mem_get(m, a))),
                out |-> "True"]

\* self.pc += 1
advance_stuck(p) == p
advance(p) == p + 1

\* step's decode and dispatch on a given word, as in step below; used by the
\* two faulty variants of step that follow
step_with(word, m, s, p) ==
    LET p1 == advance(p)
        d  == decode_word(word)
    IN
    IF ~d.ok
    THEN [mem |-> m, stack |-> s, pc |-> p1, out |-> d.err]
    ELSE
      CASE d.name = "CONST" ->
             [mem |-> m, stack |-> Append(s, FromInt(d.B[1])), pc |-> p1,
              out |-> "True"]
        [] d.name = "LOAD" ->
             [mem |-> m, stack |-> Append(s, mem_get(m, FromInt(d.B[1]))),
              pc |-> p1, out |-> "True"]
        [] d.name = "STORE" ->
             LET r == exec_STORE(m, s)
             IN  [mem |-> r.mem, stack |-> r.stack, pc |-> p1, out |-> r.out]
        [] d.name = "MAX" ->
             LET r == exec_MAX(m, s, d.B[1])
             IN  [mem |-> r.mem, stack |-> r.stack, pc |-> p1, out |-> r.out]
        [] OTHER ->
             [mem |-> m, stack |-> s, pc |-> p1, out |-> "UnknownCommand"]

\* a bug: the halt test is pc > prog_len
step_offbyone(m, s, p, n) ==
    IF p > n
    THEN [mem |-> m, stack |-> s, pc |-> p, out |-> "False"]
    ELSE step_with(mem_get(m, FromInt(p)), m, s, p)

\* a bug: the instruction is taken from the words of the loaded file, not from memory
step_frozen(m, s, p, n) ==
    IF p >= n
    THEN [mem |-> m, stack |-> s, pc |-> p, out |-> "False"]
    ELSE IF Len(prog_blob) % 4 = 0 /\ p < Len(Words(prog_blob))
    THEN step_with(Words(prog_blob)[p + 1], m, s, p)
    ELSE step_with(mem_get(m, FromInt(p)), m, s, p)

\* VM.step on the state (m, s, p, n): the state it leaves and what it returns or raises
step(m, s, p, n) ==
    IF p >= n
    THEN [mem |-> m, stack |-> s, pc |-> p, out |-> "False"]
    ELSE IF p < 0
    THEN [mem |-> m, stack |-> s, pc |-> p, out |-> "InvalidAddress"]
    ELSE
      LET word == mem_get(m, FromInt(p))
          p1   == advance(p)
          d    == decode_word(word)
      IN
      IF ~d.ok
      THEN [mem |-> m, stack |-> s, pc |-> p1, out |-> d.err]
      ELSE
        CASE d.name = "CONST" ->
               [mem |-> m, stack |-> Append(s, FromInt(d.B[1])), pc |-> p1,
                out |-> "True"]
          [] d.name = "LOAD" ->
               [mem |-> m, stack |-> Append(s, mem_get(m, FromInt(d.B[1]))),
                pc |-> p1, out |-> "True"]
          [] d.name = "STORE" ->
               LET r == exec_STORE(m, s)
               IN  [mem |-> r.mem, stack |-> r.stack, pc |-> p1, out |-> r.out]
          [] d.name = "MAX" ->
               LET r == exec_MAX(m, s, d.B[1])
               IN  [mem |-> r.mem, stack |-> r.stack, pc |-> p1, out |-> r.out]
          [] OTHER ->
               [mem |-> m, stack |-> s, pc |-> p1, out |-> "UnknownCommand"]

\* run's test `steps >= max_steps`
limit_hit_gt(st, mx) == st > mx
limit_hit_early(st, mx) == st + 1 >= mx
limit_hit(st, mx) == st >= mx

----------------------------------------------------------------------------
(* Inputs *)

\* load_program is called at most MaxLoads times on one VM
MaxLoads == 2
\* run is called with max_steps in 0..MaxRunSteps, or with its default
MaxRunSteps == 4
\* run's default max_steps
DefaultMaxSteps == 1000000

MaxStepsInputs == (0..MaxRunSteps) \cup {DefaultMaxSteps}

\* symbolic programs that assemble
SymPrograms ==
    { <<>>,
      << [op |-> "CONST", value |-> 7], [op |-> "CONST", value |-> 3],
         [op |-> "STORE"] >>,
      << [op |-> "CONST", value |-> 2], [op |-> "CONST", value |-> 3],
         [op |-> "MAX", offset |-> 0], [op |-> "LOAD", addr |-> 16777215] >>,
      << [op |-> "const", value |-> 2097151], [op |-> "CONST", value |-> 9],
         [op |-> "mAx", offset |-> 1] >>,
      << [op |-> "STORE"] >>,
      << [op |-> "CONST", value |-> 1], [op |-> "store"] >>,
      << [op |-> "MAX", offset |-> 8191] >>,
      << [op |-> "CONST", value |-> 1], [op |-> "MAX", offset |-> 1],
         [op |-> "CONST", value |-> 4] >>,
      << [op |-> "CONST", value |-> 0], [op |-> "CONST", value |-> 3],
         [op |-> "STORE"], [op |-> "Load", addr |-> 1] >> }

\* symbolic programs with an instruction that does not assemble
BadPrograms ==
    { << [op |-> "CONST", value |-> 7], [op |-> "CONST", value |-> 2097152],
         [op |-> "STORE"] >>,
      << [op |-> "nop"] >>,
      << [op |-> "CONST", value |-> 1], [op |-> "LOAD", value |-> 1] >>,
      << [value |-> 1] >>,
      << [op |-> "MAX", offset |-> -1], [op |-> "STORE"] >> }

\* binaries written by hand: words with bits set above the operand field, a word
\* with an unknown tag, and files whose length is not a multiple of 4
RawBlobs ==
    { \* LOAD 3 ; LOAD 3 ; MAX 8191 ; 0xFFFFFFE8 (tag 8, every higher bit set)
      << 117, 0, 0, 0,  117, 0, 0, 0,  249, 255, 3, 0,  232, 255, 255, 255 >>,
      \* LOAD 3 ; CONST 5 ; STORE ; 0xFFFFFFFF (tag 31)
      << 117, 0, 0, 0,  168, 0, 0, 0,  28, 0, 0, 0,  255, 255, 255, 255 >>,
      \* CONST 2 ; LOAD 2 ; 0xFFFC0019 (MAX 0 with every bit above the operand set)
      << 72, 0, 0, 0,  85, 0, 0, 0,  25, 0, 252, 255 >>,
      << 28, 0, 0 >>,
      << 8, 0, 0, 0, 28 >> }

Blobs == { Serialize(IR(P), 1) : P \in SymPrograms } \cup RawBlobs

Mnemonics == {"CONST", "const", "LOAD", "STORE", "MAX", "mAx", "nop"}
ArgNames  == {"value", "addr", "offset"}
Operands  == {-1, 0, 1, 5, 2^13 - 1, 2^13, 2^21 - 1, 2^21, 2^24 - 1, 2^24}

\* symbolic instructions: with or without `op`, with or without one operand field
Instructions ==
    { [op |-> o] : o \in Mnemonics }
    \cup { (("op" :> o) @@ (a :> v)) : o \in Mnemonics, a \in ArgNames, v \in Operands }
    \cup { (a :> v) : a \in ArgNames, v \in {0, 1} }

----------------------------------------------------------------------------
(* The state machines *)

NoFrame == steps' = 0 /\ max_steps' = 0 /\ entry_pc' = 0

Init ==
    /\ mem = <<>>
    /\ stack = <<>>
    /\ pc = 0
    /\ prog_len = 0
    /\ running = FALSE
    /\ steps = 0
    /\ max_steps = 0
    /\ entry_pc = 0
    /\ ret = [call |-> "init", out |-> "None"]
    /\ loads = 0
    /\ prog_blob = <<>>
    /\ ins = <<>>
    /\ asm = [ok |-> FALSE, err |-> "NotCalled"]
    /\ data = <<>>
    /\ out_file = None
    /\ asm_ret = [ok |-> FALSE, err |-> "NotCalled"]

\* a bug: the length of the file is tested after its whole words have been stored
LoadProgram_latecheck(blob) ==
    /\ ~running
    /\ loads < MaxLoads
    /\ loads' = loads + 1
    /\ prog_blob' = blob
    /\ mem' = StoreWords(mem, Words(blob), 1)
    /\ IF Len(blob) % 4 # 0
       THEN /\ ret' = [call |-> "load", out |-> "MalformedProgram"]
            /\ UNCHANGED <<prog_len, pc>>
       ELSE /\ prog_len' = Len(Words(blob))
            /\ pc' = 0
            /\ ret' = [call |-> "load", out |-> "None"]
    /\ NoFrame
    /\ UNCHANGED <<stack, running, ins, asm, data, out_file, asm_ret>>

\* a bug: load starts from an empty machine, dropping the stack and the memory
LoadProgram_reset(blob) ==
    /\ ~running
    /\ loads < MaxLoads
    /\ loads' = loads + 1
    /\ prog_blob' = blob
    /\ IF Len(blob) % 4 # 0
       THEN /\ ret' = [call |-> "load", out |-> "MalformedProgram"]
            /\ UNCHANGED <<mem, prog_len, pc, stack>>
       ELSE /\ mem' = StoreWords(<<>>, Words(blob), 1)
            /\ stack' = <<>>
            /\ prog_len' = Len(Words(blob))
            /\ pc' = 0
            /\ ret' = [call |-> "load", out |-> "None"]
    /\ NoFrame
    /\ UNCHANGED <<running, ins, asm, data, out_file, asm_ret>>

\* VM.load_program(path), blob being the bytes of the file
LoadProgram(blob) ==
    /\ ~running
    /\ loads < MaxLoads
    /\ loads' = loads + 1
    /\ prog_blob' = blob
    /\ IF Len(blob) % 4 # 0
       THEN /\ ret' = [call |-> "load", out |-> "MalformedProgram"]
            /\ UNCHANGED <<mem, prog_len, pc>>
       ELSE /\ mem' = StoreWords(mem, Words(blob), 1)
            /\ prog_len' = Len(Words(blob))
            /\ pc' = 0
            /\ ret' = [call |-> "load", out |-> "None"]
    /\ NoFrame
    /\ UNCHANGED <<stack, running, ins, asm, data, out_file, asm_ret>>

\* a bug: a fault is latched, and step refuses to go on after one
Step_latched ==
    /\ ~running
    /\ IF ret.out \in {"StackUnderflow", "UnknownOpcode"}
       THEN /\ ret' = [call |-> "step", out |-> "Faulted"]
            /\ UNCHANGED <<mem, stack, pc>>
       ELSE LET r == step(mem, stack, pc, prog_len)
            IN  /\ mem' = r.mem
                /\ stack' = r.stack
                /\ pc' = r.pc
                /\ ret' = [call |-> "step", out |-> r.out]
    /\ NoFrame
    /\ UNCHANGED <<prog_len, running, loads, prog_blob, ins, asm, data, out_file, asm_ret>>

\* VM.step() called by the user of the VM
Step ==
    /\ ~running
    /\ LET r == step(mem, stack, pc, prog_len)
       IN  /\ mem' = r.mem
           /\ stack' = r.stack
           /\ pc' = r.pc
           /\ ret' = [call |-> "step", out |-> r.out]
    /\ NoFrame
    /\ UNCHANGED <<prog_len, running, loads, prog_blob, ins, asm, data, out_file, asm_ret>>

\* VM.run(max_steps) is entered: steps = 0
RunStart(mx) ==
    /\ ~running
    /\ running' = TRUE
    /\ steps' = 0
    /\ max_steps' = mx
    /\ entry_pc' = pc
    /\ ret' = [call |-> "run", out |-> "Running"]
    /\ UNCHANGED <<mem, stack, pc, prog_len, loads, prog_blob, ins, asm, data, out_file, asm_ret>>

\* one evaluation of run's loop: leave it, raise the step limit, or make a step
RunIter ==
    /\ running
    /\ IF ~(pc < prog_len)
       THEN /\ running' = FALSE
            /\ ret' = [call |-> "run", out |-> "None"]
            /\ UNCHANGED <<mem, stack, pc, steps>>
       ELSE IF limit_hit(steps, max_steps)
       THEN /\ running' = FALSE
            /\ ret' = [call |-> "run", out |-> "StepLimitExceeded"]
            /\ UNCHANGED <<mem, stack, pc, steps>>
       ELSE LET r == step(mem, stack, pc, prog_len)
            IN  /\ mem' = r.mem
                /\ stack' = r.stack
                /\ pc' = r.pc
                /\ IF r.out \in {"True", "False"}
                   THEN /\ steps' = steps + 1
                        /\ UNCHANGED <<running, ret>>
                   ELSE /\ running' = FALSE
                        /\ ret' = [call |-> "run", out |-> r.out]
                        /\ UNCHANGED steps
    /\ UNCHANGED <<prog_len, max_steps, entry_pc, loads, prog_blob, ins, asm, data, out_file, asm_ret>>

Next ==
    \/ \E blob \in Blobs : LoadProgram(blob)
    \/ Step
    \/ \E mx \in MaxStepsInputs : RunStart(mx)
    \/ RunIter

Spec == Init /\ [][Next]_vars

\* the interpreter under a scheduler that lets a started run go on
FairSpec == Spec /\ WF_vars(RunIter)

\* assemble_instruction(ins)
AssembleInstruction(i) ==
    /\ ins' = i
    /\ asm' = assemble_instruction(i)
    /\ UNCHANGED <<data, out_file, asm_ret>>
    /\ UNCHANGED vm_vars

\* a bug: each word is written as soon as its instruction is encoded, so the
\* words before a failing instruction reach the file
AssembleProgram_stream(d) ==
    /\ data' = d
    /\ LET k == FirstError(d, 1) IN
       IF k # 0
       THEN /\ asm_ret' = [ok |-> FALSE, err |-> assemble_instruction(d[k]).err]
            /\ out_file' = Some(Serialize(IR(SubSeq(d, 1, k - 1)), 1))
       ELSE /\ out_file' = Some(Serialize(IR(d), 1))
            /\ asm_ret' = [ok |-> TRUE, count |-> Len(IR(d)),
                           size |-> Len(Serialize(IR(d), 1))]
    /\ UNCHANGED <<ins, asm>>
    /\ UNCHANGED vm_vars

\* assemble_program(src, out), d being the list read from src
AssembleProgram(d) ==
    /\ data' = d
    /\ LET k == FirstError(d, 1) IN
       IF k # 0
       THEN /\ asm_ret' = [ok |-> FALSE, err |-> assemble_instruction(d[k]).err]
            /\ UNCHANGED out_file
       ELSE /\ out_file' = Some(Serialize(IR(d), 1))
            /\ asm_ret' = [ok |-> TRUE, count |-> Len(IR(d)),
                           size |-> Len(Serialize(IR(d), 1))]
    /\ UNCHANGED <<ins, asm>>
    /\ UNCHANGED vm_vars

AsmNext ==
    \/ \E i \in Instructions : AssembleInstruction(i)
    \/ \E d \in SymPrograms \cup BadPrograms : AssembleProgram(d)

AsmSpec == Init /\ [][AsmNext]_vars

----------------------------------------------------------------------------
(* Properties *)

Zero == FromInt(0)

\* the last assemble_instruction call named a known mnemonic
KnownOp == "op" \in DOMAIN ins /\ Upper(ins["op"]) \in DOMAIN OPCODES

\* this transition is a call of step, by the user or by run's loop, made while
\* an instruction remains (while run is inside its loop nothing else can happen,
\* and run's loop calls step unless it raises the step limit)
StepMade ==
    /\ pc < prog_len
    /\ \/ ~running /\ ret'.call = "step"
       \/ running /\ ret'.out # "StepLimitExceeded"

\* the instruction at memory[pc], decoded as the text of the spec decodes it
CurWord == IF FromInt(pc) \in DOMAIN mem THEN mem[FromInt(pc)] ELSE Zero
CurTag == CurWord.lo % 32

\* C1: for every opcode and every operand in 0..2^operand_bits-1 (none for
\* STORE), decoding the word the assembler produced gives back the tag, the
\* mnemonic and the operand of the instruction that was assembled.
C1_RoundTrip ==
    asm.ok =>
      LET d    == decode_word(FromInt(asm.word))
          name == Upper(ins["op"])
          meta == OPCODES[name]
      IN  /\ d.ok
          /\ d.A = meta.A /\ d.A = asm.A
          /\ d.name = name /\ d.name = asm.op
          /\ d.B = (IF meta.B_bits = 0 THEN None ELSE Some(ins[meta.arg[1]]))
          /\ d.B = asm.B

C1_Witness ==
    /\ asm.ok /\ asm.op = "LOAD" /\ ins["op"] = "LOAD"
    /\ asm.B = Some(2^24 - 1)

\* C2: the assembler's table and the interpreter's table agree: each mnemonic's
\* tag is a key of LAYOUT that maps to the same mnemonic and operand width,
\* every key of LAYOUT is the tag of a mnemonic, tags are unique, and so every
\* instruction the assembler encodes is read back under the same table row.
C2_TablesAgree ==
    /\ \A m \in DOMAIN OPCODES :
          /\ OPCODES[m].A \in DOMAIN LAYOUT
          /\ LAYOUT[OPCODES[m].A] = <<m, OPCODES[m].B_bits>>
    /\ \A t \in DOMAIN LAYOUT : \E m \in DOMAIN OPCODES : OPCODES[m].A = t
    /\ \A m1, m2 \in DOMAIN OPCODES : OPCODES[m1].A = OPCODES[m2].A => m1 = m2
    /\ asm.ok => /\ asm.A \in DOMAIN LAYOUT
                 /\ LAYOUT[asm.A] = <<asm.op, OPCODES[asm.op].B_bits>>

C2_Witness == asm.ok /\ asm.op = "MAX" /\ asm.B = Some(2^13 - 1)

\* C3: a step that executes STORE on a stack of depth >= 2 (top = addr, next =
\* value) removes exactly those two elements, sets memory[addr] to value masked
\* to 32 bits and changes no other memory cell.
C3_Store ==
    [][ (StepMade /\ CurTag = 28 /\ Len(stack) >= 2) =>
          LET addr  == stack[Len(stack)]
              value == stack[Len(stack) - 1]
          IN  /\ stack' = SubSeq(stack, 1, Len(stack) - 2)
              /\ DOMAIN mem' = DOMAIN mem \cup {addr}
              /\ mem'[addr] = [hi |-> value.hi % 65536, lo |-> value.lo]
              /\ \A a \in DOMAIN mem : a # addr => mem'[a] = mem[a] ]_vars

\* the scenario of the spec: [CONST 7, CONST 3, STORE] leaves memory[3] = 7
C3_Witness ==
    /\ pc = 3 /\ prog_len = 3 /\ stack = <<>>
    /\ FromInt(3) \in DOMAIN mem /\ mem[FromInt(3)] = FromInt(7)
    /\ FromInt(7) \notin DOMAIN mem

\* C4: a step that executes MAX with operand offset on a stack of depth >= 2
\* (top = base, next = x) replaces the two by max(x, memory[base + offset]),
\* compared as unsigned numbers, an unwritten cell reading 0; memory is unchanged.
C4_Max ==
    [][ (StepMade /\ CurTag = 25 /\ Len(stack) >= 2) =>
          LET base   == stack[Len(stack)]
              x      == stack[Len(stack) - 1]
              offset == ((CurWord.hi % 4) * 65536 + CurWord.lo) \div 32
              sum    == base.lo + offset
              a      == [hi |-> base.hi + (sum \div 65536), lo |-> sum % 65536]
              y      == IF a \in DOMAIN mem THEN mem[a] ELSE Zero
              r      == stack'[Len(stack')]
          IN  /\ Len(stack') = Len(stack) - 1
              /\ SubSeq(stack', 1, Len(stack') - 1) = SubSeq(stack, 1, Len(stack) - 2)
              /\ r \in {x, y}
              /\ ~Less(r, x) /\ ~Less(r, y)
              /\ mem' = mem ]_vars

\* [CONST 2, CONST 3, MAX 0, LOAD 16777215]: MAX has replaced x = 2 by the
\* greater memory[3], the word of the fourth instruction
C4_Witness ==
    /\ pc = 3 /\ prog_len = 4
    /\ stack = << FromInt(21 + 32 * 16777215) >>

\* C5: a step that executes STORE or MAX on a stack of depth 0 or 1 raises the
\* stack-underflow error and leaves the stack and memory as they were.
C5_Underflow ==
    [][ (StepMade /\ CurTag \in {28, 25} /\ Len(stack) < 2) =>
          /\ ret'.out = "StackUnderflow"
          /\ stack' = stack
          /\ mem' = mem ]_vars

C5_Witness == ret.out = "StackUnderflow" /\ Len(stack) = 1

\* the last call was run; Need is the number of steps the program needed to halt
\* when run was entered, RunEnded that run is over without a fault of a step
InRun == ret.call = "run"
Need == prog_len - entry_pc
RunEnded == InRun /\ ~running /\ ret.out \in {"None", "StepLimitExceeded"}

RECURSIVE NonFaulting(_, _, _, _)
\* no step of the program that remains from the state (m, s, p, n) raises
NonFaulting(m, s, p, n) ==
    IF p >= n THEN TRUE
    ELSE LET r == step(m, s, p, n)
         IN  r.out = "True" /\ r.pc > p /\ NonFaulting(r.mem, r.stack, r.pc, n)

\* the run is over, no step of it has raised and none of the rest would
CleanRun == RunEnded /\ NonFaulting(mem, stack, pc, prog_len)

\* C6: run(max_steps = N) on a non-faulting program that needs N+1 steps fails
\* with the step-limit error after exactly N steps: the N+1-th instruction is
\* never executed.
C6_StepLimit ==
    (InRun /\ max_steps >= 0 /\ Need = max_steps + 1) =>
      /\ steps <= max_steps
      /\ pc < prog_len
      /\ CleanRun => /\ ret.out = "StepLimitExceeded"
                     /\ steps = max_steps
                     /\ pc = entry_pc + max_steps

C6_Witness ==
    /\ CleanRun /\ ret.out = "StepLimitExceeded"
    /\ entry_pc = 0 /\ prog_len = 3 /\ max_steps = 2 /\ steps = 2 /\ pc = 2

\* C7 as stated: the program that needs N+1 steps, run with any max_steps >= N,
\* halts normally (no step-limit error, pc = prog_len).
C7_Original ==
    (CleanRun /\ Need >= 1 /\ max_steps >= Need - 1) =>
      /\ ret.out = "None"
      /\ pc = prog_len

\* C7 amended: the program that needs N+1 steps, run with any max_steps >= N+1,
\* halts normally: run returns without the step-limit error and pc = prog_len.
C7_Amended ==
    (CleanRun /\ Need >= 1 /\ max_steps >= Need) =>
      /\ ret.out = "None"
      /\ pc = prog_len

C7_Witness ==
    /\ CleanRun /\ ret.out = "None"
    /\ entry_pc = 0 /\ prog_len = 3 /\ max_steps = 3 /\ steps = 3 /\ pc = 3

\* while or after run: run has counted no more steps than instructions remained
\* when it was entered, and pc has not passed the end of the program
RunBounded == InRun => (steps <= Need /\ steps <= prog_len /\ pc <= prog_len)

\* a run given at least as many steps as instructions remained does not end on
\* the step limit, and when it returns the program is exhausted
RunOutcome ==
    (InRun /\ ~running /\ max_steps >= Need) =>
      (ret.out # "StepLimitExceeded" /\ (ret.out = "None" => pc = prog_len))

\* C8: every step made on an instruction, executed or faulting, increases pc by
\* exactly 1, and nothing but a load changes pc otherwise; so run makes at most
\* as many steps as instructions remained, whatever max_steps is: each pass of
\* its loop either leaves the loop or counts one more step, and a run that was
\* given at least as many steps as instructions remained ends halted
\* (pc = prog_len) or faulted.
C8_Terminates ==
    /\ RunBounded /\ RunOutcome
    /\ [][StepMade => pc' = pc + 1]_vars
    /\ [][(ret'.call # "load") => (pc' >= pc /\ pc' <= pc + 1)]_vars
    /\ [][(running /\ running') => (steps' = steps + 1 /\ pc' = pc + 1)]_vars
    /\ [][RunBounded' /\ RunOutcome']_vars

\* every run that is started ends, when the loop of run is allowed to go on
\* (checked under FairSpec)
RunEnds == running ~> ~running

\* a run with the default max_steps has halted after four steps
C8_Witness ==
    /\ InRun /\ ~running /\ ret.out = "None"
    /\ max_steps = DefaultMaxSteps /\ steps = 4 /\ pc = 4 /\ prog_len = 4

\* C9: every address in use is >= 0, and every stack element and every stored
\* value lies in 0..2^32-1, also for words with bits set above the operand field.
C9_Ranges ==
    /\ \A a \in DOMAIN mem :
          /\ a.hi >= 0 /\ a.lo \in 0..65535
          /\ mem[a].hi \in 0..65535 /\ mem[a].lo \in 0..65535
    /\ \A k \in 1..Len(stack) :
          stack[k].hi \in 0..65535 /\ stack[k].lo \in 0..65535

\* the word 0xFFFFFFE8 has been loaded onto the stack and then executed as CONST
C9_Witness ==
    /\ pc = 4 /\ Len(stack) = 2
    /\ stack[1] = [hi |-> 65535, lo |-> 65512]
    /\ stack[2] = FromInt(2^21 - 1)

\* C10: for an opcode with operand_bits > 0, assembling succeeds for operand 0
\* and 2^operand_bits - 1 and fails with the out-of-range error, producing no
\* word, for operand 2^operand_bits and for a negative operand.
C10_Range ==
    (KnownOp /\ OPCODES[Upper(ins["op"])].B_bits > 0
       /\ OPCODES[Upper(ins["op"])].arg[1] \in DOMAIN ins) =>
      LET bits == OPCODES[Upper(ins["op"])].B_bits
          B    == ins[OPCODES[Upper(ins["op"])].arg[1]]
      IN  /\ (B = 0 \/ B = 2^bits - 1) =>
                (asm.ok /\ asm.B = Some(B) /\ "word" \in DOMAIN asm)
          /\ (B = 2^bits \/ B < 0) =>
                /\ ~asm.ok
                /\ asm.err = "OperandOutOfRange"
                /\ "word" \notin DOMAIN asm

C10_Witness ==
    /\ "op" \in DOMAIN ins /\ ins["op"] = "mAx"
    /\ "offset" \in DOMAIN ins /\ ins["offset"] = 2^13
    /\ ~asm.ok /\ asm.err = "OperandOutOfRange"

\* the tags of the opcode table of the spec
Tags == {8, 21, 25, 28}

\* the low five bits of a number
TagOf(w) == w.lo % 32

\* C11: decoding a word whose low 5 bits are none of 8, 21, 25, 28 fails with
\* the unknown-opcode error (here: every word held in memory), and a step that
\* reads such a word from memory[pc] raises that error and leaves the stack and
\* memory as they were.
C11_UnknownOpcode ==
    [][ /\ \A a \in DOMAIN mem :
              TagOf(mem[a]) \notin Tags =>
                (~decode_word(mem[a]).ok /\ decode_word(mem[a]).err = "UnknownOpcode")
        /\ (StepMade /\ CurTag \notin Tags) =>
              /\ ret'.out = "UnknownOpcode"
              /\ stack' = stack
              /\ mem' = mem ]_vars

\* the word 0xFFFFFFFF (tag 31) at address 3 has been stepped on
C11_Witness ==
    /\ ret.out = "UnknownOpcode" /\ pc = 4
    /\ FromInt(3) \in DOMAIN mem /\ mem[FromInt(3)] = [hi |-> 65535, lo |-> 65535]

\* the i-th word (from 0) of the file given to the last load, little-endian
FileWord(i) ==
    [hi |-> prog_blob[4 * i + 4] * 256 + prog_blob[4 * i + 3],
     lo |-> prog_blob[4 * i + 2] * 256 + prog_blob[4 * i + 1]]

\* the first load on a VM has just returned
FreshLoad == loads = 1 /\ ret.call = "load" /\ ret.out = "None"

\* C12: after load(words) on a freshly created VM memory[i] = words[i] for every
\* i < len(words), prog_len = len(words), pc = 0, the stack is empty and every
\* address >= prog_len reads 0.
C12_Load ==
    FreshLoad =>
      LET n == Len(prog_blob) \div 4 IN
      /\ prog_len = n
      /\ pc = 0
      /\ stack = <<>>
      /\ \A i \in 0..(n - 1) :
            FromInt(i) \in DOMAIN mem /\ mem[FromInt(i)] = FileWord(i)
      /\ \A a \in DOMAIN mem : (a.hi > 0 \/ a.lo >= n) => mem[a] = Zero

C12_Witness ==
    /\ FreshLoad /\ prog_len = 4
    /\ mem[FromInt(2)] = FromInt(262137)
    /\ mem[FromInt(3)] = [hi |-> 65535, lo |-> 65512]

\* C13: step called when pc >= prog_len returns False (no instructions remain)
\* and leaves pc, stack, memory and prog_len unchanged, however often it is called.
C13_HaltedStep ==
    [][ (~running /\ ret'.call = "step" /\ pc >= prog_len) =>
          /\ ret'.out = "False"
          /\ pc' = pc /\ stack' = stack /\ mem' = mem /\ prog_len' = prog_len ]_vars

\* step has returned False on an exhausted program whose run left memory[3] = 7
C13_Witness ==
    /\ ret = [call |-> "step", out |-> "False"]
    /\ pc = 3 /\ prog_len = 3 /\ pc >= prog_len
    /\ FromInt(3) \in DOMAIN mem /\ mem[FromInt(3)] = FromInt(7)

\* this transition is a call of assemble_program (it leaves the argument and the
\* result of assemble_instruction alone, which a call of that function sets)
ProgramAssembled == ins' = ins /\ asm' = asm

\* some instruction of the list d does not assemble
HasBadInstruction(d) == \E k \in 1..Len(d) : ~assemble_instruction(d[k]).ok

\* C14: assembly has no partial success: when any instruction of the list fails
\* to assemble (unknown mnemonic, missing operand, operand out of range), the
\* call fails and nothing at all is written to the output file, also when the
\* instructions before the failing one are valid.
C14_NoPartialOutput ==
    [][ (ProgramAssembled /\ HasBadInstruction(data')) =>
          /\ ~asm_ret'.ok
          /\ asm_ret'.err \in {"MissingOp", "UnknownMnemonic", "MissingOperand",
                               "OperandOutOfRange"}
          /\ out_file' = out_file ]_vars

\* [CONST 7, CONST 2097152, STORE] has failed on its second instruction and
\* there is no output file
C14_Witness ==
    /\ ~asm_ret.ok /\ asm_ret.err = "OperandOutOfRange"
    /\ Len(data) = 3 /\ assemble_instruction(data[1]).ok
    /\ out_file = None

\* the value of the i-th (from 1) little-endian word of the byte sequence b
WordValue(b, i) ==
    b[4 * i - 3] + 256 * b[4 * i - 2] + 65536 * b[4 * i - 1] + 16777216 * b[4 * i]

\* C15: assembling a list of k valid instructions writes exactly k words, the
\* i-th being the encoding of the i-th instruction, so the file has 4k bytes
\* (and k and 4k are what the assembler reports).
C15_OneWordEach ==
    asm_ret.ok =>
      /\ out_file # None
      /\ Len(out_file[1]) = 4 * Len(data)
      /\ asm_ret.count = Len(data)
      /\ asm_ret.size = 4 * Len(data)
      /\ \A i \in 1..Len(data) :
            /\ assemble_instruction(data[i]).ok
            /\ \A j \in 1..4 : out_file[1][4 * (i - 1) + j] \in 0..255
            /\ WordValue(out_file[1], i) = assemble_instruction(data[i]).word

\* a program of four instructions has been assembled into sixteen bytes
C15_Witness ==
    /\ asm_ret.ok /\ Len(data) = 4 /\ out_file # None /\ Len(out_file[1]) = 16
    /\ data[4] = [op |-> "LOAD", addr |-> 16777215]

\* this transition is a call of load_program
LoadCalled == loads' = loads + 1

\* C16: load of a file whose length is not a multiple of 4 fails with the
\* malformed-program error and leaves memory, stack, pc and prog_len as they were.
C16_MalformedLoad ==
    [][ (LoadCalled /\ Len(prog_blob') % 4 # 0) =>
          /\ ret' = [call |-> "load", out |-> "MalformedProgram"]
          /\ mem' = mem /\ stack' = stack /\ pc' = pc /\ prog_len' = prog_len ]_vars

\* a file of five bytes has been refused by a VM that holds a program of three
\* instructions, has executed two of them and keeps their values on the stack
C16_Witness ==
    /\ ret = [call |-> "load", out |-> "MalformedProgram"]
    /\ Len(prog_blob) = 5
    /\ prog_len = 3 /\ pc = 2 /\ Len(stack) = 2
    /\ FromInt(2) \in DOMAIN mem

\* the operand fields of the word at memory[pc]: 21 bits for CONST, 24 for LOAD
CurField21 == ((CurWord.hi % 1024) * 65536 + CurWord.lo) \div 32
CurField24 == ((CurWord.hi % 8192) * 65536 + CurWord.lo) \div 32

\* C17: what a step executes is decided by the word that memory[pc] holds when
\* the step is made, whatever word was loaded there: an unknown tag faults,
\* CONST pushes that word's operand, LOAD pushes the cell that word names,
\* STORE and MAX consume the stack; and STORE writes its value at its address
\* also when the address is a cell of the program.
C17_CurrentWord ==
    [][ StepMade =>
          /\ CurTag \notin Tags => ret'.out = "UnknownOpcode"
          /\ CurTag = 8 => stack' = Append(stack, FromInt(CurField21))
          /\ CurTag = 21 =>
                stack' = Append(stack, IF FromInt(CurField24) \in DOMAIN mem
                                       THEN mem[FromInt(CurField24)] ELSE Zero)
          /\ (CurTag \in {25, 28} /\ Len(stack) < 2) => ret'.out = "StackUnderflow"
          /\ (CurTag = 25 /\ Len(stack) >= 2) => Len(stack') = Len(stack) - 1
          /\ (CurTag = 28 /\ Len(stack) >= 2) =>
                /\ Len(stack') = Len(stack) - 2
                /\ mem'[stack[Len(stack)]] = stack[Len(stack) - 1] ]_vars

\* the file held a valid instruction at address 3; a STORE of the same program
\* has replaced it and the step made on it has raised the unknown-opcode error
C17_Witness ==
    /\ loads = 1 /\ prog_len = 4 /\ pc = 4
    /\ Len(prog_blob) = 16 /\ TagOf(FileWord(3)) = 21
    /\ FromInt(3) \in DOMAIN mem /\ mem[FromInt(3)] = Zero
    /\ ret.out = "UnknownOpcode"
    /\ stack = <<>>

\* the address a step on MAX passes to mem_get: base_addr + B
MaxAddress == AddInt(stack[Len(stack)], Field(CurWord, 13))

\* C18: the address base + offset that MAX reads is computed in unsigned 32-bit
\* arithmetic: in every step that executes MAX it lies in 0..2^32-1, also when
\* base is a loaded value near 2^32-1.
C18_AddressIn32 ==
    [][ (StepMade /\ CurTag = 25 /\ Len(stack) >= 2) =>
          (MaxAddress.hi \in 0..65535 /\ MaxAddress.lo \in 0..65535) ]_vars

StepFaults == {"StackUnderflow", "UnknownOpcode"}

\* C19: a step that faults (stack underflow on STORE or MAX, unknown opcode)
\* leaves the stack and memory exactly as they were and pc one past the faulting
\* word; the fault is not latched: a step called after a fault, of a step or of
\* a run, works on the instruction that follows, and a CONST there is executed.
C19_FaultNotLatched ==
    /\ [][ (StepMade /\ ret'.out \in StepFaults) =>
             (stack' = stack /\ mem' = mem /\ pc' = pc + 1) ]_vars
    /\ [][ (~running /\ ret.out \in StepFaults /\ ret'.call = "step"
              /\ pc < prog_len) =>
             /\ pc' = pc + 1
             /\ ret'.out \in StepFaults \cup {"True"}
             /\ CurTag = 8 =>
                   /\ ret'.out = "True"
                   /\ stack' = Append(stack, FromInt(CurField21)) ]_vars

\* [CONST 1, MAX 1, CONST 4]: MAX has faulted on a stack of one element, and
\* the next step has executed CONST 4
C19_Witness ==
    /\ ret = [call |-> "step", out |-> "True"]
    /\ pc = 3 /\ prog_len = 3
    /\ stack = << FromInt(1), FromInt(4) >>
    /\ TagOf(mem[FromInt(1)]) = 25

\* C20: a load that succeeds changes only memory[0..len(words)), prog_len and
\* pc: the stack and every memory cell at an address >= len(words) stay as they
\* were, so a VM that has loaded or run a program keeps its stack and its cells
\* beyond the new program.
C20_LoadFrame ==
    [][ (LoadCalled /\ ret'.out = "None") =>
          LET n == Len(prog_blob') \div 4 IN
          /\ stack' = stack
          /\ prog_len' = n /\ pc' = 0
          /\ DOMAIN mem' = DOMAIN mem \cup { FromInt(i) : i \in 0..(n - 1) }
          /\ \A a \in DOMAIN mem :
                (a.hi > 0 \/ a.lo >= n) => mem'[a] = mem[a] ]_vars

\* a second load, of the one-word program STORE, on a VM whose stack holds the
\* two values left by the run of CONST 1 ; MAX 1 ; CONST 4 and whose cells 1 and
\* 2, beyond the new program, still hold the old program's words
C20_Witness ==
    /\ loads = 2 /\ ret = [call |-> "load", out |-> "None"]
    /\ prog_len = 1 /\ pc = 0
    /\ stack = << FromInt(1), FromInt(4) >>
    /\ TagOf(mem[FromInt(0)]) = 28
    /\ TagOf(mem[FromInt(1)]) = 25 /\ TagOf(mem[FromInt(2)]) = 8

====
